---- MODULE Spec2Model ----
(***************************************************************************)
(* Competition-risk diagnostic: the rule-driven questionnaire of           *)
(* engine.py (command-line loop, run) and app.py (web form flow).           *)
(*                                                                         *)
(* Python values are modelled as follows.                                  *)
(*   dict            a record (function on its keys); a key that is absent *)
(*                   in the dict is absent from DOMAIN                     *)
(*   None / str / list of str  (answers, literals, appliesTo, entity type) *)
(*                   tagged records NoneV, Str(s), List(l)                 *)
(*   a question id   a sequence of string tokens: Id("a") = <<"a">>, and   *)
(*                   a synthesized id "q01_slug" = <<"q","0","1","_",..>>  *)
(*   question text   a sequence of one-character strings                   *)
(*   insertion-ordered dict (domain_scores, items_by_domain)               *)
(*                   a sequence of [k, v] entries in insertion order       *)
(***************************************************************************)
EXTENDS Integers, Sequences, FiniteSets, TLC

VARIABLES
    mode,             \* "cli" (engine.run) or "web" (app.py)
    phase,            \* "start", "running", "done", "load_error", "crashed", "idle"
    raw_rules,        \* the parsed YAML document handed to load_rules
    rules,            \* the normalized rulebook (list of blocks)
    answers,          \* answers: question id -> recorded answer
    asked,            \* asked: set of question ids
    domain_scores,    \* ordered dict domain -> score
    items_by_domain,  \* ordered dict domain -> list of items
    all_items,        \* cli only: list of items in accumulation order
    current_id,       \* current question id, NoId when none
    entity_type,      \* None or the entity-type answer
    report,           \* the report payload, NoReport until built
    arg,              \* argument of the pure function under examination
    ret               \* its result

vars == <<mode, phase, raw_rules, rules, answers, asked, domain_scores,
          items_by_domain, all_items, current_id, entity_type, report, arg, ret>>

session_vars == <<answers, asked, domain_scores, items_by_domain, all_items,
                  current_id, entity_type>>

-----------------------------------------------------------------------------
(* Python values *)

NoneV == [t |-> "none"]
Str(s) == [t |-> "str", s |-> s]
List(l) == [t |-> "list", l |-> l]

\* bool(v) for None, a str or a list
Truthy(v) ==
    CASE v.t = "none" -> FALSE
      [] v.t = "str" -> v.s # ""
      [] v.t = "list" -> Len(v.l) > 0
      [] OTHER -> TRUE

\* d.get(k, dflt)
Get(d, k, dflt) == IF k \in DOMAIN d THEN d[k] ELSE dflt

EmptyDict == [k \in {} |-> k]

\* v in labels, for a list of plain strings
PyIn(v, labels) == v.t = "str" /\ \E i \in 1..Len(labels) : labels[i] = v.s

Id(s) == <<s>>
NoId == <<>>

\* ordered dict: get, and d[k] = v (a new key goes last)
OGet(d, k, dflt) ==
    IF \E i \in 1..Len(d) : d[i].k = k
    THEN d[CHOOSE i \in 1..Len(d) : d[i].k = k].v
    ELSE dflt

OSet(d, k, v) ==
    IF \E i \in 1..Len(d) : d[i].k = k
    THEN [i \in 1..Len(d) |-> IF d[i].k = k THEN [k |-> k, v |-> v] ELSE d[i]]
    ELSE Append(d, [k |-> k, v |-> v])

OKeys(d) == {d[i].k : i \in 1..Len(d)}

\* dict d with d[k] = v
DSet(d, k, v) == [x \in DOMAIN d \cup {k} |-> IF x = k THEN v ELSE d[x]]

RECURSIVE SumSeq(_)
SumSeq(s) == IF Len(s) = 0 THEN 0 ELSE s[1] + SumSeq(Tail(s))

-----------------------------------------------------------------------------
(* Normalisation & defaults *)

SlugMax == 40

IsSpace(c) == c \in {" ", "\t"}
IsAlnumDash(c) == c \in {"a", "b", "A", "B", "0", "1", "-"}
Lower(c) == CASE c = "A" -> "a" [] c = "B" -> "b" [] OTHER -> c

RECURSIVE LStrip(_)
LStrip(s) == IF Len(s) > 0 /\ IsSpace(s[1]) THEN LStrip(Tail(s)) ELSE s

RECURSIVE RStrip(_)
RStrip(s) ==
    IF Len(s) > 0 /\ IsSpace(s[Len(s)]) THEN RStrip(SubSeq(s, 1, Len(s) - 1)) ELSE s

\* re.sub(r"\s+", "-", s)
RECURSIVE SpaceRuns(_)
SpaceRuns(s) ==
    IF Len(s) = 0 THEN <<>>
    ELSE IF IsSpace(s[1])
         THEN IF Len(s) > 1 /\ IsSpace(s[2]) THEN SpaceRuns(Tail(s))
              ELSE <<"-">> \o SpaceRuns(Tail(s))
         ELSE <<s[1]>> \o SpaceRuns(Tail(s))

slug(s) ==
    LET a == SpaceRuns(RStrip(LStrip(s)))
        b == SelectSeq(a, IsAlnumDash)
        c == [i \in 1..Len(b) |-> Lower(b[i])]
        d == IF Len(c) = 0 THEN <<"q">> ELSE c
    IN SubSeq(d, 1, IF Len(d) < SlugMax THEN Len(d) ELSE SlugMax)

Digits == <<"0", "1", "2", "3", "4", "5", "6", "7", "8", "9">>

RECURSIVE Decimal(_)
Decimal(n) == IF n < 10 THEN <<Digits[n + 1]>>
              ELSE Decimal(n \div 10) \o <<Digits[(n % 10) + 1]>>

\* f"q{i:02d}_{slug}"
default_id(i, question) ==
    <<"q">> \o (IF i < 10 THEN <<"0">> ELSE <<>>) \o Decimal(i) \o <<"_">> \o slug(question)

EntityLabels ==
    << "International Federation", "National Federation", "League Operator",
       "Club / Team", "Event Owner / Promoter", "Players' Union", "Athlete / Agent",
       "Refereeing Body", "Academy / Training Centre", "Venue / Stadium Operator",
       "Data / Analytics Provider", "Ticketing / Hospitality",
       "Betting / Integrity Partner", "Broadcast / Media / OTT",
       "Sponsorship / Marketing Agency", "Merchandising / Licensing",
       "Technology Platform", "Esports Organisation" >>

ENTITY_PICKER_BLOCK ==
    [ id |-> Id("entityType"),
      domain |-> "Meta",
      question |-> <<"W">>,
      kind |-> "singleSelect",
      options |-> [i \in 1..Len(EntityLabels) |-> [text |-> EntityLabels[i], points |-> 0]],
      appliesTo |-> Str("all") ]

\* one iteration of the loop of normalize_rules: block b at 1-based index i.
\* A raw block is a dict or None; raw options are None or a tagged list.
normalize_block(b, i) ==
    LET nb0 == IF b = NoneV THEN EmptyDict ELSE b
        q == Get(nb0, "question", <<>>)
        nb1 == IF "id" \in DOMAIN nb0 THEN nb0 ELSE DSet(nb0, "id", default_id(i, q))
        nb2 == IF "kind" \in DOMAIN nb1 THEN nb1 ELSE DSet(nb1, "kind", "singleSelect")
        nb3 == IF "appliesTo" \in DOMAIN nb2 THEN nb2 ELSE DSet(nb2, "appliesTo", Str("all"))
        o == Get(nb3, "options", NoneV)
    IN DSet(nb3, "options", IF o.t = "seq" THEN o.v ELSE <<>>)

\* the selector put after the blocks instead of before them
normalize_rules_append(raw) ==
    LET norm == [i \in 1..Len(raw) |-> normalize_block(raw[i], i)]
    IN IF \E i \in 1..Len(norm) : norm[i].id = Id("entityType")
       THEN norm
       ELSE norm \o <<ENTITY_PICKER_BLOCK>>

normalize_rules(raw) ==
    LET norm == [i \in 1..Len(raw) |-> normalize_block(raw[i], i)]
    IN IF \E i \in 1..Len(norm) : norm[i].id = Id("entityType")
       THEN norm
       ELSE <<ENTITY_PICKER_BLOCK>> \o norm

\* yaml.safe_load(f) or []: the falsy documents
YamlFalsy(doc) ==
    CASE doc.t = "none" -> TRUE
      [] doc.t = "seq" -> Len(doc.v) = 0
      [] doc.t = "map" -> doc.v = EmptyDict
      [] doc.t = "int" -> doc.v = 0
      [] doc.t = "str" -> doc.s = ""
      [] doc.t = "bool" -> ~doc.v
      [] OTHER -> FALSE

\* load_rules: [ok |-> TRUE, rules |-> ...] or the ValueError
load_rules(doc) ==
    LET raw == IF YamlFalsy(doc) THEN [t |-> "seq", v |-> <<>>] ELSE doc
    IN IF raw.t # "seq" THEN [ok |-> FALSE, rules |-> <<>>]
       ELSE [ok |-> TRUE, rules |-> normalize_rules(raw.v)]

\* by_id = {b["id"]: b for b in rules}: its keys, and by_id[k], where a later
\* block replaces an earlier one of the same id
by_id_keys(rs) == {rs[i].id : i \in 1..Len(rs)}

by_id(rs, k) ==
    rs[CHOOSE i \in 1..Len(rs) : rs[i].id = k /\ \A j \in (i + 1)..Len(rs) : rs[j].id # k]

order(rs) == [i \in 1..Len(rs) |-> rs[i].id]

-----------------------------------------------------------------------------
(* Predicate evaluation *)

\* json.dumps(v, sort_keys=True) of None, a str or a list of str, as tokens
json_dumps(v) ==
    CASE v.t = "none" -> <<"null">>
      [] v.t = "str" -> <<"\"", v.s, "\"">>
      [] v.t = "list" -> <<"[">> \o [i \in 1..Len(v.l) |-> v.l[i]] \o <<"]">>
      [] OTHER -> <<"?">>

\* an equality that None never satisfies
json_eq_not_none(a, b) == a # NoneV /\ json_dumps(a) = json_dumps(b)

json_eq(a, b) == json_dumps(a) = json_dumps(b)

\* A result of eval_predicate: "True", "False", or "Raise" when the
\* evaluation ends in an exception (KeyError on a missing field).
PyBool(b) == IF b THEN "True" ELSE "False"

\* answers.get(qid)
AnswerOf(ans, qid) == IF qid \in DOMAIN ans THEN ans[qid] ELSE NoneV

\* the result handed back as it is
negate_same(r) == r

\* not <result>, an exception passing through
negate(r) == IF r = "Raise" THEN "Raise" ELSE PyBool(r = "False")

RECURSIVE eval_predicate(_, _, _), eval_any(_, _, _), eval_all(_, _, _)

\* any(eval_predicate(p, ...) for p in ps): stops at the first True
eval_any(ps, ans, et) ==
    IF Len(ps) = 0 THEN "False"
    ELSE LET r == eval_predicate(ps[1], ans, et)
         IN IF r = "False" THEN eval_any(Tail(ps), ans, et) ELSE r

\* all(eval_predicate(p, ...) for p in ps): stops at the first False
eval_all(ps, ans, et) ==
    IF Len(ps) = 0 THEN "True"
    ELSE LET r == eval_predicate(ps[1], ans, et)
         IN IF r = "True" THEN eval_all(Tail(ps), ans, et) ELSE r

eval_predicate(pred, ans, et) ==
    IF DOMAIN pred = {} THEN "True"
    ELSE IF "any" \in DOMAIN pred THEN eval_any(pred.any, ans, et)
    ELSE IF "all" \in DOMAIN pred THEN eval_all(pred.all, ans, et)
    ELSE IF "not" \in DOMAIN pred THEN
        negate(eval_predicate(pred["not"], ans, et))
    ELSE IF "equals" \in DOMAIN pred THEN
        IF {"questionId", "value"} \subseteq DOMAIN pred.equals
        THEN PyBool(json_eq(AnswerOf(ans, pred.equals.questionId), pred.equals.value))
        ELSE "Raise"
    ELSE IF "includes" \in DOMAIN pred THEN
        IF {"questionId", "value"} \subseteq DOMAIN pred.includes
        THEN LET a == AnswerOf(ans, pred.includes.questionId)
             IN PyBool(a.t = "list" /\ PyIn(pred.includes.value, a.l))
        ELSE "Raise"
    ELSE IF "in" \in DOMAIN pred THEN
        IF {"questionId", "values"} \subseteq DOMAIN pred["in"]
        THEN LET a == AnswerOf(ans, pred["in"].questionId)
                 vs == pred["in"].values
             IN PyBool(\E i \in 1..Len(vs) : json_eq(a, vs[i]))
        ELSE "Raise"
    ELSE IF "entityIn" \in DOMAIN pred THEN
        PyBool(PyIn(et, Get(pred.entityIn, "values", <<>>)))
    ELSE "False"

applies_to(block, et) ==
    LET ap == Get(block, "appliesTo", Str("all"))
    IN ap = Str("all") \/ (ap.t = "list" /\ PyIn(et, ap.l))

is_visible(block, ans, et) == eval_predicate(Get(block, "showIf", EmptyDict), ans, et)

\* next_via_routes: the targetId of the first route whose when holds (NoId
\* for None), or "Raise"
RECURSIVE routes_scan(_, _, _)
routes_scan(rts, ans, et) ==
    IF Len(rts) = 0 THEN [raise |-> FALSE, id |-> NoId]
    ELSE LET r == eval_predicate(Get(rts[1], "when", EmptyDict), ans, et)
         IN IF r = "Raise" THEN [raise |-> TRUE, id |-> NoId]
            ELSE IF r = "True" THEN [raise |-> FALSE, id |-> Get(rts[1], "targetId", NoId)]
            ELSE routes_scan(Tail(rts), ans, et)

next_via_routes(block, ans, et) == routes_scan(Get(block, "next", <<>>), ans, et)

-----------------------------------------------------------------------------
(* Risk bucketing *)

HighThreshold == 60
MediumThreshold == 25

\* strict comparisons in place of >=
risk_bucket_strict(score) ==
    IF score > HighThreshold THEN "HIGH"
    ELSE IF score > MediumThreshold THEN "MEDIUM"
    ELSE "LOW"

risk_bucket(score) ==
    IF score >= HighThreshold THEN "HIGH"
    ELSE IF score >= MediumThreshold THEN "MEDIUM"
    ELSE "LOW"

-----------------------------------------------------------------------------
(* Asking, scoring and items *)

\* input(...).strip() on the typed lines the model draws from TextInputs
strip(s) == IF s = " " THEN "" ELSE s

\* int(c.get("points", 0))
points_of(c) == Get(c, "points", 0)

MetaKeys == {"next_step", "risk_comment", "legal_basis", "action_priority"}

\* block.get("question", "<no question>")
question_of(block) == Get(block, "question", <<"<no question>">>)

domain_of(block) == Get(block, "domain", "General")

\* (block.get("kind") or "singleSelect").strip()
kind_of(block) ==
    LET k == Get(block, "kind", "singleSelect")
    IN IF k = "" THEN "singleSelect" ELSE k

\* engine.run: the item of a chosen option, with the option's metadata
cli_item(qid, block, c) ==
    [k \in {"id", "domain", "question", "answer", "points"} \cup (MetaKeys \cap DOMAIN c) |->
        CASE k = "id" -> qid
          [] k = "domain" -> domain_of(block)
          [] k = "question" -> question_of(block)
          [] k = "answer" -> c.text
          [] k = "points" -> points_of(c)
          [] OTHER -> c[k]]

\* app._record_item's item
web_item(qid, domain, question, answer, points) ==
    [id |-> qid, domain |-> domain, question |-> question, answer |-> answer,
     points |-> points]

\* items_by_domain.setdefault(domain, []).append(item)
append_item(ibd, domain, item) == OSet(ibd, domain, Append(OGet(ibd, domain, <<>>), item))

RECURSIVE append_items(_, _, _)
append_items(ibd, domain, its) ==
    IF Len(its) = 0 THEN ibd
    ELSE append_items(append_item(ibd, domain, its[1]), domain, Tail(its))

\* domain_scores[domain] = domain_scores.get(domain, 0) + points
add_score(ds, domain, points) == OSet(ds, domain, OGet(ds, domain, 0) + points)

\* ask_multi_select's de-duplication by text, first occurrence kept
RECURSIVE unique_by_text(_, _)
unique_by_text(chosen, seen) ==
    IF Len(chosen) = 0 THEN <<>>
    ELSE IF chosen[1].text \in seen THEN unique_by_text(Tail(chosen), seen)
    ELSE <<chosen[1]>> \o unique_by_text(Tail(chosen), seen \cup {chosen[1].text})

\* ask_multi_select on the typed numbers `picks`
ask_multi_select(opts, picks) ==
    IF Len(opts) = 0 THEN <<>>
    ELSE LET valid == SelectSeq(picks, LAMBDA k : 1 <= k /\ k <= Len(opts))
             chosen == [i \in 1..Len(valid) |-> opts[valid[i]]]
         IN unique_by_text(chosen, {})

\* next((int(o.get("points", 0)) for o in opts if o["text"] == s), 0)
web_points(opts, s) ==
    IF \E i \in 1..Len(opts) : opts[i].text = s
    THEN points_of(opts[CHOOSE i \in 1..Len(opts) :
                          opts[i].text = s /\ \A j \in 1..(i - 1) : opts[j].text # s])
    ELSE 0

-----------------------------------------------------------------------------
(* Choosing the next question: engine.run lines 309-324, app._next_question *)

\* entity_type or ""
entity_or_empty(et) == IF Truthy(et) THEN et ELSE Str("")

\* a scan that does not look at showIf
fallback_scan_any_visibility(rs, i, ans, et, asked_) ==
    LET E == {j \in i..Len(rs) : rs[j].id \notin asked_ /\ applies_to(by_id(rs, rs[j].id), et)}
    IN [raise |-> FALSE,
        id |-> IF E = {} THEN NoId ELSE rs[CHOOSE j \in E : \A k \in E : j <= k].id]

\* the fallback scan over order, from position i
RECURSIVE fallback_scan(_, _, _, _, _)
fallback_scan(rs, i, ans, et, asked_) ==
    IF i > Len(rs) THEN [raise |-> FALSE, id |-> NoId]
    ELSE LET bid == rs[i].id
             b == by_id(rs, bid)
         IN IF bid \in asked_ THEN fallback_scan(rs, i + 1, ans, et, asked_)
            ELSE IF ~applies_to(b, et) THEN fallback_scan(rs, i + 1, ans, et, asked_)
            ELSE LET v == is_visible(b, ans, et)
                 IN IF v = "Raise" THEN [raise |-> TRUE, id |-> NoId]
                    ELSE IF v = "True" THEN [raise |-> FALSE, id |-> bid]
                    ELSE fallback_scan(rs, i + 1, ans, et, asked_)

\* a route's target taken whether or not it has been asked
next_question_reask(rs, block, ans, et, asked_) ==
    LET nxt == next_via_routes(block, ans, entity_or_empty(et))
    IN IF nxt.raise THEN nxt
       ELSE IF nxt.id # NoId /\ nxt.id # Id("")
            THEN [raise |-> FALSE, id |-> nxt.id]
       ELSE IF Truthy(et) THEN fallback_scan(rs, 1, ans, et, asked_)
       ELSE [raise |-> FALSE, id |-> NoId]

\* the declaration-order scan alone, the routes ignored
next_question_scan_only(rs, block, ans, et, asked_) ==
    IF Truthy(et) THEN fallback_scan(rs, 1, ans, et, asked_)
    ELSE [raise |-> FALSE, id |-> NoId]

next_question(rs, block, ans, et, asked_) ==
    LET nxt == next_via_routes(block, ans, entity_or_empty(et))
    IN IF nxt.raise THEN nxt
       ELSE IF nxt.id # NoId /\ nxt.id # Id("") /\ nxt.id \notin asked_
            THEN [raise |-> FALSE, id |-> nxt.id]
       ELSE IF Truthy(et) THEN fallback_scan(rs, 1, ans, et, asked_)
       ELSE [raise |-> FALSE, id |-> NoId]

-----------------------------------------------------------------------------
(* Report *)

TopN == 5

\* sorted(items, key=points, reverse=True): stable
RECURSIVE insert_desc(_, _)
insert_desc(sorted, it) ==
    IF Len(sorted) = 0 THEN <<it>>
    ELSE IF sorted[1].points >= it.points THEN <<sorted[1]>> \o insert_desc(Tail(sorted), it)
    ELSE <<it>> \o sorted

RECURSIVE sort_desc(_, _)
sort_desc(items, acc) ==
    IF Len(items) = 0 THEN acc ELSE sort_desc(Tail(items), insert_desc(acc, items[1]))

top_items(items) ==
    LET pos == SelectSeq(items, LAMBDA it : it.points > 0)
        s == sort_desc(pos, <<>>)
    IN SubSeq(s, 1, IF Len(s) < TopN THEN Len(s) ELSE TopN)

RECURSIVE flatten(_)
flatten(ibd) == IF Len(ibd) = 0 THEN <<>> ELSE ibd[1].v \o flatten(Tail(ibd))

domains_list(ds, ibd) ==
    [i \in 1..Len(ds) |->
        [name |-> ds[i].k, score |-> ds[i].v, risk |-> risk_bucket(ds[i].v),
         items |-> OGet(ibd, ds[i].k, <<>>)]]

total_of(ds) == SumSeq([i \in 1..Len(ds) |-> ds[i].v])

\* engine.run lines 329-366
cli_report(ds, ibd, all, et) ==
    [entity_type |-> et,
     total_score |-> total_of(ds),
     overall_risk |-> risk_bucket(total_of(ds)),
     domains |-> domains_list(ds, ibd),
     top_items |-> top_items(all)]

\* app._build_payload
build_payload(ds, ibd, et) ==
    [entity_type |-> et,
     total_score |-> total_of(ds),
     overall_risk |-> risk_bucket(total_of(ds)),
     domains |-> domains_list(ds, ibd),
     top_items |-> top_items(flatten(ibd))]

NoReport == EmptyDict

-----------------------------------------------------------------------------
(* The rulebooks and inputs of the sessions examined *)

MaxBlocks == 2   \* raw blocks besides an entityType block
MaxPicks == 2    \* numbers typed at a cli multiSelect prompt
MaxRetryScore == 40  \* the score up to which an aborted web submission is repeated

IdPool == <<Id("a"), Id("b"), Id("c"), Id("d")>>
IdMissing == Id("zz")

Seq_(v) == [t |-> "seq", v |-> v]

Equals(q, v) == [equals |-> [questionId |-> q, value |-> v]]
Includes(q, v) == [includes |-> [questionId |-> q, value |-> v]]
InValues(q, vs) == [in |-> [questionId |-> q, values |-> vs]]
EntityIn(ls) == [entityIn |-> [values |-> ls]]

YesNo == Seq_(<< [text |-> "Yes", points |-> 10, risk_comment |-> "r"], [text |-> "No"] >>)
AB == Seq_(<< [text |-> "A", points |-> 10, hardcore |-> TRUE], [text |-> "B", points |-> 30] >>)
HiLo == Seq_(<< [text |-> "High", points |-> 60], [text |-> "Neg", points |-> -5] >>)

Templates == 1..7

\* raw block number k, declared with id `me`
RawBlock(k, me) ==
    CASE k = 1 -> [id |-> me, domain |-> "Pricing", question |-> <<"A">>, options |-> YesNo,
                   next |-> << [when |-> Equals(me, Str("Yes")), targetId |-> IdPool[2]],
                               [targetId |-> IdPool[1]] >>]
      [] k = 2 -> [id |-> me, domain |-> "Pricing", question |-> <<"A">>,
                   kind |-> "multiSelect", options |-> AB, appliesTo |-> Str("all"),
                   next |-> << [when |-> Includes(me, Str("B")), targetId |-> IdPool[2]] >>]
      [] k = 3 -> [id |-> me, domain |-> "Data", question |-> <<"b">>, kind |-> "text",
                   showIf |-> [not |-> Equals(IdPool[1], Str("No"))]]
      [] k = 4 -> [id |-> me, domain |-> "Data", question |-> <<"b">>, options |-> HiLo,
                   appliesTo |-> List(<<"League Operator">>)]
      [] k = 5 -> [id |-> me, question |-> <<"b">>, options |-> NoneV,
                   showIf |-> [any |-> << EntityIn(<<"Club / Team">>),
                                          InValues(IdPool[1], <<Str("Yes"), List(<<"A", "B">>)>>) >>]]
      [] k = 6 -> [id |-> me, domain |-> "Data", question |-> <<"A">>,
                   kind |-> "singleSelect", options |-> YesNo,
                   next |-> << [when |-> [all |-> <<Equals(me, Str("Yes"))>>],
                                targetId |-> IdMissing] >>]
      [] OTHER -> [id |-> me, domain |-> "Pricing", kind |-> "multiSelect", options |-> AB]

\* a rulebook's own entityType block: a text question that routes to the second block
RawEntityBlock ==
    [id |-> Id("entityType"), domain |-> "Meta", question |-> <<"W">>, kind |-> "text",
     next |-> << [targetId |-> IdPool[2]] >>]

\* the rulebooks: up to MaxBlocks blocks of different shapes, ids in the order
\* of IdPool, then possibly the rulebook's own entityType block
SessionDocs ==
    { Seq_([i \in 1..n |-> RawBlock(ks[i], IdPool[i])] \o (IF own THEN <<RawEntityBlock>> ELSE <<>>)) :
        <<n, ks, own>> \in { <<n, ks, own>> \in (0..MaxBlocks) \X [1..MaxBlocks -> Templates] \X BOOLEAN :
                               /\ \A i \in 1..MaxBlocks : i > n => ks[i] = 1
                               /\ \A i, j \in 1..n : i # j => ks[i] # ks[j] } }

TextInputs == {"", " ", "League Operator"}

\* the option numbers typed at a singleSelect prompt; for the built-in
\* entity picker the sessions choose League Operator or Club / Team
MaxChoice == 4
EntityPicks == {3, 4}
SinglePicks(opts) == IF Len(opts) > MaxChoice THEN EntityPicks ELSE 1..Len(opts)

RECURSIVE SeqsUpTo(_, _)
SeqsUpTo(S, n) ==
    IF n = 0 THEN {<<>>}
    ELSE LET r == SeqsUpTo(S, n - 1) IN r \cup {Append(q, x) : q \in r, x \in S}

\* what st.multiselect returns: distinct labels, in the order selected
Selections(opts) ==
    { q \in SeqsUpTo(1..Len(opts), Len(opts)) : \A i, j \in 1..Len(q) : i # j => q[i] # q[j] }

-----------------------------------------------------------------------------
(* Session *)


InitSession ==
    /\ answers = EmptyDict
    /\ asked = {}
    /\ domain_scores = <<>>
    /\ items_by_domain = <<>>
    /\ all_items = <<>>
    /\ current_id = Id("entityType")
    /\ entity_type = NoneV

Init ==
    /\ mode \in {"cli", "web"}
    /\ phase = "start"
    /\ raw_rules \in SessionDocs
    /\ rules = <<>>
    /\ InitSession
    /\ report = NoReport
    /\ arg = NoneV
    /\ ret = NoneV

\* engine.run line 228, app.py line 36
Load ==
    /\ phase = "start"
    /\ LET r == load_rules(raw_rules)
       IN /\ rules' = r.rules
          /\ phase' = IF r.ok THEN "running" ELSE "load_error"
    /\ UNCHANGED <<mode, raw_rules, session_vars, report, arg, ret>>

Asking(m) == phase = "running" /\ mode = m /\ current_id # NoId

\* block = by_id[current_id], as a one-element set, empty when the id is unknown
CurrentBlock ==
    IF current_id \in by_id_keys(rules) THEN {by_id(rules, current_id)} ELSE {}

\* block.get("options", []) or []
options_of(block) == Get(block, "options", <<>>)

\* by_id[current_id] of an id no block declares: KeyError
LookupFail ==
    /\ phase = "running" /\ current_id # NoId
    /\ current_id \notin by_id_keys(rules)
    /\ phase' = "crashed"
    /\ UNCHANGED <<mode, raw_rules, rules, session_vars, report, arg, ret>>

\* engine.run lines 301-324, after the branch on kind
CliAdvance(block, ans_val, points, items, to_all) ==
    LET ans2 == DSet(answers, current_id, ans_val)
        et2 == IF current_id = Id("entityType") THEN ans_val ELSE entity_type
        asked2 == asked \cup {current_id}
        nq == next_question(rules, block, ans2, et2, asked2)
    IN /\ answers' = ans2
       /\ items_by_domain' = append_items(items_by_domain, domain_of(block), items)
       /\ all_items' = IF to_all THEN all_items \o items ELSE all_items
       /\ entity_type' = et2
       /\ domain_scores' = add_score(domain_scores, domain_of(block), points)
       /\ asked' = asked2
       /\ current_id' = IF nq.raise THEN current_id ELSE nq.id
       /\ phase' = IF nq.raise THEN "crashed" ELSE phase
       /\ UNCHANGED <<mode, raw_rules, rules, report, arg, ret>>

\* engine.run lines 253-272
CliMultiSelect ==
    /\ Asking("cli")
    /\ \E block \in CurrentBlock :
         /\ kind_of(block) = "multiSelect"
         /\ \E picks \in SeqsUpTo(0..(Len(options_of(block)) + 1), MaxPicks) :
              LET chosen_list == ask_multi_select(options_of(block), picks)
                  texts == [i \in 1..Len(chosen_list) |-> chosen_list[i].text]
                  pts == SumSeq([i \in 1..Len(chosen_list) |-> points_of(chosen_list[i])])
                  items == [i \in 1..Len(chosen_list) |->
                              cli_item(current_id, block, chosen_list[i])]
              IN CliAdvance(block, List(texts), pts, items, TRUE)

\* engine.run lines 274-281
CliText ==
    /\ Asking("cli")
    /\ \E block \in CurrentBlock :
         /\ kind_of(block) = "text"
         /\ \E typed \in TextInputs :
              LET val == strip(typed)
                  item == cli_item(current_id, block, [text |-> val, points |-> 0])
              IN CliAdvance(block, Str(val), 0, <<item>>, FALSE)

\* engine.run lines 283-299, with ask_single_select
CliSingleSelect ==
    /\ Asking("cli")
    /\ \E block \in CurrentBlock :
         /\ kind_of(block) \notin {"multiSelect", "text"}
         /\ \E chosen \in (IF Len(options_of(block)) = 0
                           THEN {[text |-> strip(typed), points |-> 0] : typed \in TextInputs}
                           ELSE {options_of(block)[k] : k \in SinglePicks(options_of(block))}) :
              CliAdvance(block, Str(chosen.text), points_of(chosen),
                         <<cli_item(current_id, block, chosen)>>, TRUE)

\* engine.run lines 326-369
CliReport ==
    /\ phase = "running" /\ mode = "cli" /\ current_id = NoId
    /\ report' = cli_report(domain_scores, items_by_domain, all_items, entity_type)
    /\ phase' = "done"
    /\ UNCHANGED <<mode, raw_rules, rules, session_vars, arg, ret>>

\* app.py: the tail of a submit handler, from _record_item on.  block["question"]
\* raises KeyError when the block has no question; what the handler already
\* stored in the session state stays, asked and current_id are not touched, and
\* the form can be submitted again.  Such a submission is examined while the
\* domain's score stays within MaxRetryScore.
WebAdvance(block, ans_val, ds2, et2, recs) ==
    LET ans2 == DSet(answers, current_id, ans_val)
        fails == Len(recs) > 0 /\ "question" \notin DOMAIN block
        items == [i \in 1..Len(recs) |->
                    web_item(current_id, domain_of(block), block.question, recs[i].answer,
                             recs[i].points)]
        asked2 == asked \cup {current_id}
        nq == next_question(rules, block, ans2, et2, asked2)
    IN /\ fails => OGet(ds2, domain_of(block), 0) <= MaxRetryScore
       /\ answers' = ans2
       /\ domain_scores' = ds2
       /\ entity_type' = et2
       /\ items_by_domain' =
            IF fails THEN items_by_domain
            ELSE append_items(items_by_domain, domain_of(block), items)
       /\ asked' = IF fails THEN asked ELSE asked2
       /\ current_id' = IF fails \/ nq.raise THEN current_id ELSE nq.id
       /\ UNCHANGED <<mode, phase, raw_rules, rules, all_items, report, arg, ret>>

\* app.py lines 122-134
WebMultiSelect ==
    /\ Asking("web")
    /\ \E block \in CurrentBlock :
         /\ kind_of(block) = "multiSelect"
         /\ \E sel \in Selections(options_of(block)) :
              LET opts == options_of(block)
                  selected == [i \in 1..Len(sel) |-> opts[sel[i]].text]
                  pts == SumSeq([i \in 1..Len(selected) |-> web_points(opts, selected[i])])
                  recs == [i \in 1..Len(selected) |->
                             [answer |-> selected[i], points |-> web_points(opts, selected[i])]]
              IN WebAdvance(block, List(selected),
                            add_score(domain_scores, domain_of(block), pts), entity_type, recs)

\* app.py lines 136-143
WebText ==
    /\ Asking("web")
    /\ \E block \in CurrentBlock :
         /\ kind_of(block) = "text"
         /\ \E val \in TextInputs :
              WebAdvance(block, Str(val), domain_scores, entity_type,
                         <<[answer |-> val, points |-> 0]>>)

\* app.py lines 145-159
WebSingleSelect ==
    /\ Asking("web")
    /\ \E block \in CurrentBlock :
         /\ kind_of(block) \notin {"multiSelect", "text"}
         /\ \E ans_text \in (IF Len(options_of(block)) = 0 THEN TextInputs
                             ELSE {options_of(block)[k].text : k \in SinglePicks(options_of(block))}) :
              LET pts == IF Len(options_of(block)) = 0 THEN 0
                         ELSE web_points(options_of(block), ans_text)
              IN WebAdvance(block, Str(ans_text),
                            add_score(domain_scores, domain_of(block), pts),
                            IF current_id = Id("entityType") THEN Str(ans_text) ELSE entity_type,
                            <<[answer |-> ans_text, points |-> pts]>>)

\* app.py lines 164-167: the finished page builds the payload
WebFinished ==
    /\ phase = "running" /\ mode = "web" /\ current_id = NoId
    /\ report' = build_payload(domain_scores, items_by_domain, entity_type)
    /\ phase' = "done"
    /\ UNCHANGED <<mode, raw_rules, rules, session_vars, arg, ret>>

\* app.py lines 189-193: "Start another response" clears the session state
WebReset ==
    /\ phase = "done" /\ mode = "web"
    /\ phase' = "start"
    /\ rules' = <<>>
    /\ report' = NoReport
    /\ answers' = EmptyDict
    /\ asked' = {}
    /\ domain_scores' = <<>>
    /\ items_by_domain' = <<>>
    /\ all_items' = <<>>
    /\ current_id' = Id("entityType")
    /\ entity_type' = NoneV
    /\ UNCHANGED <<mode, raw_rules, arg, ret>>

Next ==
    \/ Load
    \/ LookupFail
    \/ CliMultiSelect
    \/ CliText
    \/ CliSingleSelect
    \/ CliReport
    \/ WebMultiSelect
    \/ WebText
    \/ WebSingleSelect
    \/ WebFinished
    \/ WebReset

Spec == Init /\ [][Next]_vars

-----------------------------------------------------------------------------
(* risk_bucket on its own: the scores -NegSpan..ScoreSpan *)

ScoreSpan == 100
NegSpan == 10

Idle ==
    /\ mode = "cli"
    /\ raw_rules = Seq_(<<>>)
    /\ rules = <<>>
    /\ InitSession
    /\ report = NoReport

InitRisk ==
    /\ Idle
    /\ phase = "call"
    /\ arg \in (0 - NegSpan)..ScoreSpan
    /\ ret = NoneV

CallRiskBucket ==
    /\ phase = "call"
    /\ ret' = risk_bucket(arg)
    /\ phase' = "returned"
    /\ UNCHANGED <<mode, raw_rules, rules, session_vars, report, arg>>

SpecRisk == InitRisk /\ [][CallRiskBucket]_vars

-----------------------------------------------------------------------------
(* load_rules / normalize_rules on their own: the documents NormDocs *)

MaxRaw == 3   \* blocks of a raw rulebook

\* raw blocks: null, without id, with an id, with id entityType, with an id
\* that has the shape of a synthesized one
RawPool ==
    { NoneV,
      [question |-> <<" ", "A", " ", "\t", "b", "!">>, options |-> NoneV],
      [question |-> <<"!">>, kind |-> "text", appliesTo |-> List(<<"Club / Team">>)],
      [id |-> Id("a"), question |-> <<"A">>, options |-> YesNo],
      [id |-> Id("entityType"), question |-> <<"W">>, kind |-> "text"],
      [id |-> <<"q", "0", "2", "_", "q">>, domain |-> "Data"] }

\* documents that are not a list: a mapping, an empty mapping, numbers,
\* strings, booleans, null
OtherDocs ==
    { [t |-> "map", v |-> [a |-> 1]], [t |-> "map", v |-> EmptyDict],
      [t |-> "int", v |-> 0], [t |-> "int", v |-> 7],
      [t |-> "str", s |-> ""], [t |-> "str", s |-> "x"],
      [t |-> "bool", v |-> FALSE], [t |-> "bool", v |-> TRUE], NoneV }

NormDocs == {Seq_(q) : q \in SeqsUpTo(RawPool, MaxRaw)} \cup OtherDocs

InitNorm ==
    /\ mode = "cli"
    /\ phase = "start"
    /\ raw_rules \in NormDocs
    /\ rules = <<>>
    /\ InitSession
    /\ report = NoReport
    /\ arg = NoneV
    /\ ret = NoneV

SpecNorm == InitNorm /\ [][Load]_vars

-----------------------------------------------------------------------------
(* eval_predicate on its own: the predicates PredsUpTo(MaxDepth) *)

MaxDepth == 1

Atoms ==
    { EmptyDict,
      Equals(Id("a"), Str("Yes")),
      Equals(Id("a"), List(<<"A", "B">>)),
      Equals(Id("a"), NoneV),
      Includes(Id("a"), Str("B")),
      InValues(Id("a"), <<Str("No"), List(<<"B">>)>>),
      InValues(Id("a"), <<NoneV, Str("No")>>),
      EntityIn(<<"Club / Team">>),
      [entityIn |-> EmptyDict],
      [foo |-> EmptyDict],
      [equals |-> EmptyDict],
      [includes |-> [questionId |-> Id("a")]],
      [in |-> [values |-> <<Str("Yes")>>]] }

RECURSIVE PredsUpTo(_)
PredsUpTo(d) ==
    IF d = 0 THEN Atoms
    ELSE LET ps == PredsUpTo(d - 1)
         IN ps \cup {[not |-> p] : p \in ps}
               \cup {[any |-> <<p, q>>] : p \in ps, q \in Atoms}
               \cup {[all |-> <<p, q>>] : p \in ps, q \in Atoms}
               \cup {[any |-> <<>>], [all |-> <<>>], [any |-> <<>>, not |-> EmptyDict]}

AnswerSets ==
    { EmptyDict } \cup
    { [k \in {Id("a")} |-> v] : v \in {Str("Yes"), Str("No"), List(<<"A", "B">>), List(<<"B">>)} }

EntityArgs == {Str(""), Str("Club / Team")}

InitPred ==
    /\ Idle
    /\ phase = "call"
    /\ arg \in [pred : PredsUpTo(MaxDepth), answers : AnswerSets, entity_type : EntityArgs]
    /\ ret = NoneV

\* eval_predicate(p, a, e) and eval_predicate({"not": p}, a, e)
CallEvalPredicate ==
    /\ phase = "call"
    /\ ret' = [p |-> eval_predicate(arg.pred, arg.answers, arg.entity_type),
               not_p |-> eval_predicate([not |-> arg.pred], arg.answers, arg.entity_type)]
    /\ phase' = "returned"
    /\ UNCHANGED <<mode, raw_rules, rules, session_vars, report, arg>>

SpecPred == InitPred /\ [][CallEvalPredicate]_vars

-----------------------------------------------------------------------------
(* Notions the properties are stated with *)

\* the target of the first route of `block`, in declared order, whose when holds
FirstHoldingTarget(block, ans, et) ==
    LET rts == Get(block, "next", <<>>)
        H == {i \in 1..Len(rts) : eval_predicate(Get(rts[i], "when", EmptyDict), ans, et) = "True"}
    IN IF H = {} THEN NoId
       ELSE Get(rts[CHOOSE i \in H : \A j \in H : i <= j], "targetId", NoId)

\* block i of the rulebook is unasked, applicable and visible
Eligible(i) ==
    /\ rules[i].id \notin asked
    /\ applies_to(rules[i], entity_type)
    /\ is_visible(rules[i], answers, entity_type) = "True"

\* the session's entity type is not among the labels the block applies to
NotApplicable(block) ==
    LET ap == Get(block, "appliesTo", Str("all"))
    IN ap.t = "list" /\ ~PyIn(entity_type, ap.l)

ItemPoints(d) ==
    LET its == OGet(items_by_domain, d, <<>>)
    IN SumSeq([i \in 1..Len(its) |-> its[i].points])

\* the option an item records carries hardcore = true
ItemHardcore(it) ==
    /\ it.id \in by_id_keys(rules)
    /\ \E i \in 1..Len(options_of(by_id(rules, it.id))) :
         LET o == options_of(by_id(rules, it.id))[i]
         IN o.text = it.answer /\ Get(o, "hardcore", FALSE)

-----------------------------------------------------------------------------
(* Properties *)

\* C1: while the session runs, the question chosen as current, by a route or
\* by the fallback scan, is never a member of the asked set.
C1_NeverAskedAgain ==
    (phase = "running" /\ current_id # NoId) => current_id \notin asked

\* a satisfied route of an answered block points at an asked question, and
\* another question has been chosen
C1_Witness ==
    /\ phase = "running" /\ current_id # NoId
    /\ \E id \in asked \cap by_id_keys(rules) :
         LET t == FirstHoldingTarget(by_id(rules, id), answers, entity_or_empty(entity_type))
         IN t # NoId /\ t \in asked

\* C2: once entityType is answered and the session has an entity type, no block
\* whose appliesTo list lacks that entity type is asked or made current.
C2_InapplicableNeverAsked ==
    (phase \in {"running", "done"} /\ Id("entityType") \in asked /\ Truthy(entity_type)) =>
        \A id \in ((asked \cup {current_id}) \cap by_id_keys(rules)) \ {Id("entityType")} :
            ~NotApplicable(by_id(rules, id))

\* C3: for every domain, the domain's score (0 without an entry) is the sum of
\* the points of the items recorded under it.
C3_ScoreIsItemSum ==
    phase \in {"running", "done"} =>
        \A d \in OKeys(domain_scores) \cup OKeys(items_by_domain) :
            OGet(domain_scores, d, 0) = ItemPoints(d)

\* C4: in the report, a domain with an item of a hardcore option is HIGH, and
\* the overall risk is HIGH when any item of the session is of a hardcore option.
C4_HardcoreForcesHigh ==
    phase = "done" =>
        /\ \A i \in 1..Len(report.domains) :
             (\E j \in 1..Len(report.domains[i].items) : ItemHardcore(report.domains[i].items[j]))
                => report.domains[i].risk = "HIGH"
        /\ (\E i \in 1..Len(report.domains) :
              \E j \in 1..Len(report.domains[i].items) : ItemHardcore(report.domains[i].items[j]))
                => report.overall_risk = "HIGH"

\* a step that completes the submission of the current question
Submitted == phase = "running" /\ current_id \in by_id_keys(rules) /\ asked' # asked

\* C5: when the first route, in declared order, of the block just answered
\* whose when holds has a target that is not asked, that target is the next
\* question.
C5_RouteTaken ==
    [][Submitted =>
        LET t == FirstHoldingTarget(by_id(rules, current_id), answers',
                                    entity_or_empty(entity_type'))
        IN (t # NoId /\ t \notin asked') => current_id' = t]_vars

\* the current question was reached by a route although an unasked, applicable
\* and visible block precedes it in the rulebook
C5_Witness ==
    /\ phase = "running" /\ current_id \in by_id_keys(rules)
    /\ \E id \in asked \cap by_id_keys(rules) :
         FirstHoldingTarget(by_id(rules, id), answers, entity_or_empty(entity_type)) = current_id
    /\ \E i, j \in 1..Len(rules) : i < j /\ rules[j].id = current_id /\ Eligible(i)

Bucket(s) == IF s >= 60 THEN "HIGH" ELSE IF s >= 25 THEN "MEDIUM" ELSE "LOW"

Rank(b) == CASE b = "LOW" -> 0 [] b = "MEDIUM" -> 1 [] b = "HIGH" -> 2 [] OTHER -> 3

\* C7: risk_bucket(s) is HIGH iff s >= 60, MEDIUM iff 25 <= s < 60, LOW iff
\* s < 25, and it is monotone non-decreasing in s.
C7_Thresholds ==
    phase = "returned" =>
        /\ ret \in {"LOW", "MEDIUM", "HIGH"}
        /\ ret = "HIGH" <=> arg >= 60
        /\ ret = "MEDIUM" <=> (25 <= arg /\ arg < 60)
        /\ ret = "LOW" <=> arg < 25
        /\ \A s \in (0 - NegSpan)..ScoreSpan :
             s <= arg => Rank(risk_bucket(s)) <= Rank(ret)

C7_Witness == phase = "returned" /\ arg = 60 /\ ret = "HIGH"

\* the points of the option of `block` with text s
OptionPoints(block, s) ==
    LET opts == options_of(block)
    IN Get(opts[CHOOSE i \in 1..Len(opts) : opts[i].text = s], "points", 0)

\* C8: answering a multiSelect question with the selection S adds the sum of
\* the points of S to the domain's score and appends one item per selected
\* option, with that option's text and points.
C8_MultiSelectScoring ==
    [][(/\ phase = "running" /\ current_id \in by_id_keys(rules)
        /\ kind_of(by_id(rules, current_id)) = "multiSelect"
        /\ <<answers, asked, domain_scores, items_by_domain>>' #
              <<answers, asked, domain_scores, items_by_domain>>) =>
        LET b == by_id(rules, current_id)
            d == domain_of(b)
            S == answers'[current_id].l
            old == OGet(items_by_domain, d, <<>>)
            new == OGet(items_by_domain', d, <<>>)
        IN /\ OGet(domain_scores', d, 0) =
                 OGet(domain_scores, d, 0) + SumSeq([i \in 1..Len(S) |-> OptionPoints(b, S[i])])
           /\ Len(new) = Len(old) + Len(S)
           /\ SubSeq(new, 1, Len(old)) = old
           /\ \A i \in 1..Len(S) :
                /\ new[Len(old) + i].answer = S[i]
                /\ new[Len(old) + i].points = OptionPoints(b, S[i])]_vars

\* the normalized block nb is the raw block b at position i: its fields are
\* kept, and a synthesized id carries the position
KeepsBlock(b, nb, i) ==
    /\ b # NoneV => \A k \in DOMAIN b \ {"options"} : k \in DOMAIN nb /\ nb[k] = b[k]
    /\ (b = NoneV \/ "id" \notin DOMAIN b) => (nb.id[1] = "q" /\ nb.id[3] = Digits[i + 1])

\* C9: for a list of raw blocks none of which has id entityType, normalize_rules
\* returns the built-in selector followed by the input blocks in their order;
\* when a block has id entityType, it returns the input blocks in their order.
C9_EntityFirst ==
    (phase = "running" /\ raw_rules.t = "seq") =>
        LET raw == raw_rules.v
            has == \E i \in 1..Len(raw) : "id" \in DOMAIN raw[i] /\ raw[i].id = Id("entityType")
            off == IF has THEN 0 ELSE 1
        IN /\ Len(rules) = Len(raw) + off
           /\ ~has => (rules[1].id = Id("entityType") /\ rules[1] = ENTITY_PICKER_BLOCK)
           /\ \A i \in 1..Len(raw) : KeepsBlock(raw[i], rules[i + off], i)

C9_Witness ==
    /\ phase = "running" /\ raw_rules.t = "seq" /\ Len(raw_rules.v) = MaxRaw
    /\ \A i \in 1..Len(raw_rules.v) : "id" \notin DOMAIN raw_rules.v[i]
    /\ rules[1].id = Id("entityType")

\* a predicate every node of which has the fields its key requires
RECURSIVE WellFormed(_)
WellFormed(p) ==
    IF DOMAIN p = {} THEN TRUE
    ELSE IF "any" \in DOMAIN p THEN \A i \in 1..Len(p.any) : WellFormed(p.any[i])
    ELSE IF "all" \in DOMAIN p THEN \A i \in 1..Len(p.all) : WellFormed(p.all[i])
    ELSE IF "not" \in DOMAIN p THEN WellFormed(p["not"])
    ELSE IF "equals" \in DOMAIN p THEN {"questionId", "value"} \subseteq DOMAIN p.equals
    ELSE IF "includes" \in DOMAIN p THEN {"questionId", "value"} \subseteq DOMAIN p.includes
    ELSE IF "in" \in DOMAIN p THEN {"questionId", "values"} \subseteq DOMAIN p["in"]
    ELSE TRUE

Malformed(p) ==
    /\ DOMAIN p # {}
    /\ DOMAIN p \cap {"any", "all", "not"} = {}
    /\ \/ DOMAIN p \cap {"equals", "includes", "in", "entityIn"} = {}
       \/ ~WellFormed(p)

\* C11: eval_predicate never ends in an error, and on a non-empty node that is
\* not a well-formed any/all/not/equals/includes/in/entityIn node it returns
\* false.
C11_FailClosed ==
    phase = "returned" =>
        /\ ret.p \in {"True", "False"}
        /\ Malformed(arg.pred) => ret.p = "False"

\* C12: when the parsed document is not a sequence (a mapping, a number, a
\* string, a boolean; the empty and zero ones included), loading fails: no
\* rulebook is returned and no session runs.
C12_NonListFatal ==
    (phase # "start" /\ raw_rules.t \in {"map", "int", "str", "bool"}) =>
        (phase = "load_error" /\ rules = <<>>)

\* the target of the first route of `block`, in declared order, whose when
\* holds and whose target is not in asked_
FirstUnaskedHoldingTarget(block, ans, et, asked_) ==
    LET rts == Get(block, "next", <<>>)
        H == {i \in 1..Len(rts) :
                /\ eval_predicate(Get(rts[i], "when", EmptyDict), ans, et) = "True"
                /\ Get(rts[i], "targetId", NoId) \notin asked_ \cup {NoId}}
    IN IF H = {} THEN NoId
       ELSE rts[CHOOSE i \in H : \A j \in H : i <= j].targetId

\* C13: a satisfied route whose target is asked counts as no match: the next
\* question is the target of the first route, in declared order, whose when
\* holds and whose target is not asked.
C13_AskedTargetSkipped ==
    [][Submitted =>
        LET t == FirstUnaskedHoldingTarget(by_id(rules, current_id), answers',
                                           entity_or_empty(entity_type'), asked')
        IN t # NoId => current_id' = t]_vars

\* block i of rulebook rs is unasked, applicable and visible
EligibleIn(rs, i, ans, et, asked_) ==
    /\ rs[i].id \notin asked_
    /\ applies_to(rs[i], et)
    /\ is_visible(rs[i], ans, entity_or_empty(et)) = "True"

\* the id of the first eligible block in declaration order, NoId when none
FirstEligible(rs, ans, et, asked_) ==
    LET E == {i \in 1..Len(rs) : EligibleIn(rs, i, ans, et, asked_)}
    IN IF E = {} THEN NoId ELSE rs[CHOOSE i \in E : \A j \in E : i <= j].id

C15_CompleteMeansNoneEligible ==
    (phase \in {"running", "done"} /\ current_id = NoId) =>
        FirstEligible(rules, answers, entity_type, asked) = NoId

\* a step that submits an answer to the current question
AnswerStep ==
    /\ phase = "running" /\ current_id # NoId
    /\ <<answers, asked, domain_scores, items_by_domain, current_id>>' #
          <<answers, asked, domain_scores, items_by_domain, current_id>>

\* C16: every answer submission strictly grows the asked set, at most as many
\* submissions are made as the rulebook has distinct block ids, and the
\* session does not end otherwise than by reaching completion.
C16_Terminates ==
    [][/\ AnswerStep => (asked \subseteq asked' /\ asked' # asked)
       /\ asked' \subseteq by_id_keys(rules')
       /\ phase' # "crashed"]_vars

\* an includes / in node with its fields, about a question that has no
\* recorded answer in the answer set of the call
UnansweredIncludes ==
    /\ DOMAIN arg.pred = {"includes"} /\ WellFormed(arg.pred)
    /\ arg.pred.includes.questionId \notin DOMAIN arg.answers

UnansweredIn ==
    /\ DOMAIN arg.pred = {"in"} /\ WellFormed(arg.pred)
    /\ arg.pred["in"].questionId \notin DOMAIN arg.answers

NullAlternative(vs) == \E i \in 1..Len(vs) : vs[i] = NoneV

\* C17 (as stated): an includes or in predicate about a question without a
\* recorded answer is false, whatever literal or alternatives it names.
C17_UnansweredIsFalse ==
    (phase = "returned" /\ (UnansweredIncludes \/ UnansweredIn)) => ret.p = "False"

\* C17: an includes or in predicate about a question without a recorded answer
\* evaluates without an error; includes is false, and in is false unless null
\* is among its alternatives, in which case it is true.
C17_UnansweredFalseUnlessNull ==
    /\ (phase = "returned" /\ UnansweredIncludes) => ret.p = "False"
    /\ (phase = "returned" /\ UnansweredIn) =>
          ret.p = (IF NullAlternative(arg.pred["in"].values) THEN "True" ELSE "False")

\* an in predicate with a null alternative, about an unanswered question
C17_Witness ==
    /\ phase = "returned" /\ UnansweredIn
    /\ NullAlternative(arg.pred["in"].values)
    /\ ret.p = "True"

\* C18: no two blocks of the normalized rulebook share an id, so the map from
\* ids to blocks has one entry per block.
C18_UniqueIds ==
    phase = "running" =>
        /\ \A i, j \in 1..Len(rules) : i # j => rules[i].id # rules[j].id
        /\ Cardinality(by_id_keys(rules)) = Len(rules)

-----------------------------------------------------------------------------
(* Sessions over route-free rulebooks of MaxTopBlocks scoring questions in two
   domains: every block applies to all and has no showIf, so the questions
   are asked in declaration order *)

MaxTopBlocks == 3

TopOptions == Seq_(<< [text |-> "A", points |-> 10], [text |-> "B", points |-> 30] >>)

TopBlock(k, me) ==
    CASE k = 1 -> [id |-> me, domain |-> "Pricing", question |-> <<"A">>, options |-> YesNo]
      [] k = 2 -> [id |-> me, domain |-> "Data", question |-> <<"b">>, options |-> YesNo]
      [] k = 3 -> [id |-> me, domain |-> "Pricing", question |-> <<"A">>,
                   kind |-> "multiSelect", options |-> TopOptions]
      [] OTHER -> [id |-> me, domain |-> "Data", question |-> <<"b">>,
                   kind |-> "multiSelect", options |-> TopOptions]

TopDocs == { Seq_([i \in 1..MaxTopBlocks |-> TopBlock(ks[i], IdPool[i])]) :
               ks \in [1..MaxTopBlocks -> 1..4] }

InitTop ==
    /\ mode \in {"cli", "web"}
    /\ phase = "start"
    /\ raw_rules \in TopDocs
    /\ rules = <<>>
    /\ InitSession
    /\ report = NoReport
    /\ arg = NoneV
    /\ ret = NoneV

NextTop ==
    \/ Load
    \/ CliMultiSelect
    \/ CliSingleSelect
    \/ CliReport
    \/ WebMultiSelect
    \/ WebSingleSelect
    \/ WebFinished

SpecTop == InitTop /\ [][NextTop]_vars

RECURSIVE ItemsInOrder(_)
\* the recorded items in the order of their recording: question by question
\* in the order asked, within a question in the order appended
ItemsInOrder(i) ==
    IF i > Len(rules) THEN <<>>
    ELSE SelectSeq(OGet(items_by_domain, domain_of(rules[i]), <<>>),
                   LAMBDA it : it.id = rules[i].id) \o ItemsInOrder(i + 1)

\* the number of items of P that come before item i when sorted by points
\* descending, ties in the order of P
Before(P, i) ==
    Cardinality({j \in 1..Len(P) :
                   P[j].points > P[i].points \/ (P[j].points = P[i].points /\ j < i)})

StableTop(P, n) ==
    [k \in 1..(IF Len(P) < n THEN Len(P) ELSE n) |->
        P[CHOOSE i \in 1..Len(P) : Before(P, i) = k - 1]]

\* C19: the report's top_items are the at most 5 items of positive points,
\* taken from all items of the session, sorted by points descending, ties in
\* the order the items were recorded.
C19_TopItems ==
    phase = "done" =>
        report.top_items =
            StableTop(SelectSeq(ItemsInOrder(1), LAMBDA it : it.points > 0), 5)

\* C20: the current question id is none or the id of a block of the rulebook,
\* so that looking up the current block never fails.
C20_CurrentIsDeclared ==
    phase \in {"running", "crashed", "done"} =>
        /\ current_id = NoId \/ current_id \in by_id_keys(rules)
        /\ phase # "crashed"

\* C21: in the report, every domain under which an item was recorded is an
\* entry of the domains list, with the items recorded under it.
C21_ItemDomainsReported ==
    phase = "done" =>
        \A d \in OKeys(items_by_domain) :
            \E i \in 1..Len(report.domains) :
                /\ report.domains[i].name = d
                /\ report.domains[i].items = OGet(items_by_domain, d, <<>>)

====
